---- MODULE Spec2Model ----
(***************************************************************************)
(* Model of scripts/lib/sign-macos.ts: sign() and the generator            *)
(* findFilesToSign(), with isBundleExecutable() and evaluateConstraints(). *)
(* Strings whose characters the code inspects are sequences of             *)
(* one-character strings.                                                  *)
(***************************************************************************)
EXTENDS Integers, Sequences, FiniteSets, TLC

\* ------------------------------------------------------------------ bounds
\* Subtrees missing from the bundle tree on disk when sign() starts.
MaxPruned == 1
\* Longest entitlements.overrides / constraints / remove list of a configuration.
MaxOverrides == 2
MaxConstraints == 2
MaxRemove == 2
\* Longest relative path isBundleExecutable is called on, in components.
MaxComponents == 4
\* Longest array in a declaration evaluateConstraints is called on.
MaxElements == 2

\* ------------------------------------------------------- sequence helpers
Reverse(s) == [i \in 1..Len(s) |-> s[Len(s) + 1 - i]]

\* String.prototype.endsWith
EndsWith(s, suffix) ==
  /\ Len(suffix) <= Len(s)
  /\ SubSeq(s, Len(s) - Len(suffix) + 1, Len(s)) = suffix

\* String.prototype.split(sep) for a one-character separator.
RECURSIVE SplitFrom(_, _, _)
SplitFrom(s, sepChar, cur) ==
  IF s = <<>> THEN <<cur>>
  ELSE IF Head(s) = sepChar THEN <<cur>> \o SplitFrom(Tail(s), sepChar, <<>>)
  ELSE SplitFrom(Tail(s), sepChar, Append(cur, Head(s)))

Split(s, sepChar) == SplitFrom(s, sepChar, <<>>)

\* Array.prototype.join(sep)
RECURSIVE Join(_, _)
Join(parts, sepChar) ==
  IF parts = <<>> THEN <<>>
  ELSE IF Len(parts) = 1 THEN parts[1]
  ELSE parts[1] \o <<sepChar>> \o Join(Tail(parts), sepChar)

\* The members of a finite set of numbers in ascending order.
RECURSIVE Ascending(_)
Ascending(S) ==
  IF S = {} THEN <<>>
  ELSE LET least == CHOOSE x \in S : \A y \in S : x <= y
       IN <<least>> \o Ascending(S \ {least})

Range(s) == {s[i] : i \in 1..Len(s)}

\* Sequences over S of length at most n.
RECURSIVE SeqsUpTo(_, _)
SeqsUpTo(S, n) ==
  IF n = 0 THEN {<<>>}
  ELSE LET shorter == SeqsUpTo(S, n - 1)
       IN shorter \cup {Append(p, x) : p \in {q \in shorter : Len(q) = n - 1}, x \in S}

\* ---------------------------------------------------------------- strings
\* The characters of the names that occur in the model.
Chars(s) ==
  CASE s = "RD.app"      -> <<"R", "D", ".", "a", "p", "p">>
    [] s = "Contents"    -> <<"C", "o", "n", "t", "e", "n", "t", "s">>
    [] s = "MacOS"       -> <<"M", "a", "c", "O", "S">>
    [] s = "RD"          -> <<"R", "D">>
    [] s = "D"           -> <<"D">>
    [] s = "H"           -> <<"H">>
    [] s = "Frameworks"  -> <<"F", "r", "a", "m", "e", "w", "o", "r", "k", "s">>
    [] s = "F.framework" -> <<"F", ".", "f", "r", "a", "m", "e", "w", "o", "r", "k">>
    [] s = "Versions"    -> <<"V", "e", "r", "s", "i", "o", "n", "s">>
    [] s = "A"           -> <<"A">>
    [] s = "F"           -> <<"F">>
    [] s = "L"           -> <<"L">>
    [] s = "Resources"   -> <<"R", "e", "s", "o", "u", "r", "c", "e", "s">>
    [] s = "unused.txt"  -> <<"u", "n", "u", "s", "e", "d", ".", "t", "x", "t">>
    [] s = "unpacked"    -> <<"u", "n", "p", "a", "c", "k", "e", "d">>
    [] s = "w"           -> <<"w">>
    [] s = ".app"        -> <<".", "a", "p", "p">>
    [] s = ".framework"  -> <<".", "f", "r", "a", "m", "e", "w", "o", "r", "k">>
    [] s = ".app/Contents/MacOS/" ->
         <<".", "a", "p", "p", "/", "C", "o", "n", "t", "e", "n", "t", "s", "/",
           "M", "a", "c", "O", "S", "/">>
    [] s = "${AC_TEAMID}" ->
         <<"$", "{", "A", "C", "_", "T", "E", "A", "M", "I", "D", "}">>
    [] s = "TEAM"        -> <<"T", "E", "A", "M">>
    [] s = "x"           -> <<"x">>
    [] s = ""            -> <<>>

sep == "/"

\* ------------------------------------------------------------ bundle tree
\* The unpacked bundle on disk, as readdir(dir, {withFileTypes: true}) reports it:
\*   1 RD.app/                       (appDir)
\*   2   Contents/
\*   3     MacOS/
\*   4       RD                      (the app's bundle executable)
\*   5       D
\*   6       H
\*   7     Frameworks/
\*   8       F.framework/
\*   9         Versions/
\*  10           A/
\*  11             F                 (the framework's bundle executable)
\*  12             L
\*  13         F -> Versions/A/F     (symbolic link)
\*  14     Resources/
\*  15       unused.txt
Nodes == 1..15
appDirNode == 1

nodeName ==
  << "RD.app", "Contents", "MacOS", "RD", "D", "H", "Frameworks", "F.framework",
     "Versions", "A", "F", "L", "F", "Resources", "unused.txt" >>

nodeParent == << 0, 1, 2, 3, 3, 3, 2, 7, 8, 9, 10, 10, 8, 2, 14 >>

\* Dirent type: isDirectory() / isFile() / isSymbolicLink()
nodeKind ==
  << "dir", "dir", "dir", "file", "file", "file", "dir", "dir",
     "dir", "dir", "file", "file", "symlink", "dir", "file" >>

isDirectory(n) == nodeKind[n] = "dir"
isFile(n) == nodeKind[n] = "file"
isSymbolicLink(n) == nodeKind[n] = "symlink"

Children(n) == {c \in Nodes : nodeParent[c] = n}

\* The orders in which readdir may list a set of entries: the order of the
\* tree above, or its reverse.
Listings(entries) == {Ascending(entries), Reverse(Ascending(entries))}

RECURSIVE Ancestors(_)
Ancestors(n) ==
  IF nodeParent[n] = 0 THEN {} ELSE {nodeParent[n]} \cup Ancestors(nodeParent[n])

\* n and everything beneath it.
Subtree(n) == {m \in Nodes : m = n \/ n \in Ancestors(m)}

\* Components of a node's path below appDir, outermost first.
RECURSIVE Components(_)
Components(n) ==
  IF nodeParent[n] = 0 THEN <<>> ELSE Append(Components(nodeParent[n]), nodeName[n])

\* workDir is "/w"; unpackedDir and appDir are path.join()ed onto it.
workDir == <<"", "w">>
unpackedDir == Append(workDir, "unpacked")
appDir == Append(unpackedDir, nodeName[appDirNode])

\* path.resolve(dir, file.name): the absolute path, as a list of components.
resolve(n) == appDir \o Components(n)

\* The same path as the string the code handles.
PathString(components) == Join([i \in 1..Len(components) |-> Chars(components[i])], sep)

fullPath == [n \in Nodes |-> PathString(resolve(n))]

\* path.relative(from, to) for a path `to` at or below `from`.
relative(from, to) == SubSeq(to, Len(from) + 1, Len(to))

relPath == [n \in Nodes |-> relative(appDir, resolve(n))]

\* ---------------------------------------------------- isBundleExecutable
isBundleExecutable(path) ==
  LET parts == Reverse(Split(path, sep))
  IN \/ /\ Len(parts) >= 4
        /\ EndsWith(path, parts[1] \o Chars(".app/Contents/MacOS/") \o parts[1])
     \/ /\ Len(parts) >= 4
        /\ parts[4] = parts[1] \o Chars(".framework")
        /\ parts[3] = Chars("Versions")

bundleExecutable == [n \in Nodes |-> isBundleExecutable(fullPath[n])]

isBundleDirAppOnly == [n \in Nodes |-> EndsWith(fullPath[n], Chars(".app"))]

\* A directory whose name ends with .app or .framework (lines 214).
isBundleDir == [n \in Nodes |-> \/ EndsWith(fullPath[n], Chars(".app"))
                                \/ EndsWith(fullPath[n], Chars(".framework"))]

\* ------------------------------------------------- launch constraint values
\* A declaration value is tagged with what JavaScript's typeof / Array.isArray
\* tell the code: string, number, array, object (null is an object without keys).
Str(s) == [t |-> "string", v |-> Chars(s)]
Num(k) == [t |-> "number", v |-> k]
Arr(elems) == [t |-> "array", v |-> elems]
Obj(fields) == [t |-> "object", v |-> fields]
Null == [t |-> "null", v |-> <<>>]
Bool(b) == [t |-> "boolean", v |-> b]

placeholder == Chars("${AC_TEAMID}")

\* The own enumerable keys lodash's mapValues visits, and the value under each:
\* the fields of an object, the indices of an array and of a non-empty string
\* (one-character strings), none for a number, null or the empty string.
OwnKeys(value) ==
  CASE value.t = "object" -> DOMAIN value.v
    [] value.t \in {"array", "string"} -> {ToString(i - 1) : i \in 1..Len(value.v)}
    [] OTHER -> {}

OwnValue(value, key) ==
  CASE value.t = "object" -> value.v[key]
    [] value.t = "array" ->
         value.v[CHOOSE i \in 1..Len(value.v) : ToString(i - 1) = key]
    [] value.t = "string" ->
         [t |-> "string",
          v |-> <<value.v[CHOOSE i \in 1..Len(value.v) : ToString(i - 1) = key]>>]

\* process.env.AC_TEAMID || value
teamIdOr(AC_TEAMID, value) ==
  IF AC_TEAMID.defined /\ AC_TEAMID.value # <<>>
  THEN [t |-> "string", v |-> AC_TEAMID.value]
  ELSE value

RECURSIVE evaluateConstraints(_, _)
evaluateConstraints(constraint, AC_TEAMID) ==
  Obj([key \in OwnKeys(constraint) |->
        LET value == OwnValue(constraint, key)
        IN CASE value.t = "string" ->
                  IF value.v = placeholder THEN teamIdOr(AC_TEAMID, value) ELSE value
             [] value.t = "array" ->
                  Arr([i \in 1..Len(value.v) |-> evaluateConstraints(value.v[i], AC_TEAMID)])
             [] value.t \in {"object", "null"} -> evaluateConstraints(value, AC_TEAMID)
             [] OTHER -> value])

\* plist.build(): the property list written for an object.
plistBuild(object) == [plist |-> object]

\* createHash('sha256').update(relPath).digest('base64url'): the digest stands
\* for its input (SHA-256 taken as collision free); a digest is 43 characters
\* long and so never the name "default".
sha256Base64url(path) == <<"sha256">> \o path

\* ---------------------------------------------------------- configuration
NodeAt(path) == {n \in Nodes : relPath[n] = path}

pathH == relPath[6]
pathL == relPath[12]
pathFramework == relPath[8]
pathUnused == relPath[15]
pathMissing == <<"Contents", "missing">>

\* entitlements.default
defaultEntitlements == <<"bar">>

\* Records for entitlements.overrides: {paths, entitlements}.
OverridePool ==
  { [paths |-> <<pathH>>, entitlements |-> <<"foo">>],
    [paths |-> <<pathL, pathH>>, entitlements |-> <<"baz", "bar">>] }

declTeam == Obj("team-identifier" :> Str("${AC_TEAMID}"))
declNested ==
  Obj("$or" :> Arr(<<Obj("team-identifier" :> Str("${AC_TEAMID}")),
                     Obj("signing-identifier" :> Str("x"))>>)
      @@ "validation-category" :> Num(1))

\* Records for constraints: {paths, self?, parent?, responsible?}; categories
\* holds the optional fields that are present.
ConstraintPool ==
  { [paths |-> <<pathH>>, categories |-> ("self" :> declTeam)],
    [paths |-> <<pathH, pathL>>,
     categories |-> ("parent" :> declNested @@ "responsible" :> declTeam)] }

RemovePool == {pathUnused, pathFramework, pathL, pathMissing}

SigningConfig(overrides, constraints, remove) ==
  [entitlements |-> [default |-> defaultEntitlements, overrides |-> overrides],
   constraints |-> constraints,
   remove |-> remove]

\* The configuration used where something else varies.
baseConfig ==
  SigningConfig(<<[paths |-> <<pathL>>, entitlements |-> <<"foo">>]>>,
                <<[paths |-> <<pathL, <<>>>>, categories |-> ("self" :> declTeam)]>>,
                <<pathUnused>>)

BaseConfigs == {SigningConfig(<<>>, <<>>, <<>>), baseConfig}

\* Configurations that differ in the entitlement overrides, in the constraint
\* records.
EntitlementConfigs ==
  { SigningConfig(o, <<>>, <<>>) : o \in SeqsUpTo(OverridePool, MaxOverrides) }

ConstraintConfigs ==
  { SigningConfig(<<>>, c, <<>>) : c \in SeqsUpTo(ConstraintPool, MaxConstraints) }

\* Configurations that differ in what is removed.
RemoveConfigs == { SigningConfig(<<>>, <<>>, r) : r \in SeqsUpTo(RemovePool, MaxRemove) }

\* ------------------------------------------------------------ environment
Unset == [defined |-> FALSE, value |-> <<>>]
EnvVar(s) == [defined |-> TRUE, value |-> Chars(s)]

Env(fingerprint, id, password, team) ==
  [CSC_FINGERPRINT |-> fingerprint, APPLEID |-> id, AC_PASSWORD |-> password,
   AC_TEAMID |-> team]

fullEnv == Env(EnvVar("x"), EnvVar("x"), EnvVar("x"), EnvVar("TEAM"))
noTeamEnv == Env(EnvVar("x"), EnvVar("x"), EnvVar("x"), Unset)

Envs ==
  { fullEnv,
    noTeamEnv,
    Env(Unset, EnvVar("x"), EnvVar("x"), EnvVar("TEAM")),
    Env(EnvVar(""), EnvVar("x"), EnvVar("x"), EnvVar("TEAM")),
    Env(EnvVar("x"), Unset, EnvVar("x"), EnvVar("TEAM")),
    Env(EnvVar("x"), EnvVar("x"), EnvVar(""), EnvVar("TEAM")) }

\* x ?? ''
orEmpty(x) == IF x.defined THEN x.value ELSE <<>>

\* Truthiness of an environment value.
truthy(x) == x.defined /\ x.value # <<>>

\* ------------------------------------------------------------- bundle trees
\* The trees sign() may find: the full tree less at most MaxPruned subtrees.
Trees ==
  { Nodes \ UNION {Subtree(p) : p \in P} :
      P \in {Q \in SUBSET (Nodes \ {appDirNode}) : Cardinality(Q) <= MaxPruned} }

\* ------------------------------------------------------------------ state
VARIABLES
  pc,                       \* where sign() is
  error,                    \* what sign() threw, "none" until it does
  env,                      \* process.env
  configFile,               \* Contents/build/signing-config-mac.yaml on disk
  signingConfig,            \* the parsed configuration, once read
  tree,                     \* the nodes of the bundle tree that exist on disk
  rm,                       \* the state of each deletion started by line 56
  plists,                   \* the files of plistsDir: name -> content
  wroteDefaultEntitlements,
  stack,                    \* the frames of findFilesToSign, innermost last
  handles,                  \* files open for the header read
  children,                 \* codesign processes that have not exited
  filePath,                 \* the path the loop body is signing (0: none)
  args,                     \* the arguments collected for its codesign call
  typeIndex,                \* position in constraintTypes
  yielded,                  \* history: paths yielded by the generator
  verified,                 \* history: Presence Checks and their exit status
  signLog,                  \* history: codesign --sign invocations
  writes,                   \* history: files written to plistsDir
  visited,                  \* history: nodes the walker listed or read
  deepVerifies,             \* history: status of each codesign --verify --deep
  stages,                   \* history: later stages reached
  dmgFile,                  \* what sign() returned ("none" until it returns)
  bytesOf,                  \* the first bytes of each file of the bundle
  bundle,                   \* the bundle tree as sign() found it
  skipped,                  \* history: files skipped as bundle executables
  inspected,                \* history: header inspections and how they went
  listed,                   \* history: how many times readdir read each directory
  call                      \* a call of one of the pure functions, with its result

vars ==
  << pc, error, env, configFile, signingConfig, tree, rm, plists,
     wroteDefaultEntitlements, stack, handles, children, filePath, args,
     typeIndex, yielded, verified, signLog, writes, visited, deepVerifies,
     stages, dmgFile, bytesOf, bundle, skipped, inspected, listed, call >>

NoConfig == SigningConfig(<<>>, <<>>, <<>>)
NoArgs == [entitlements |-> <<>>, launchConstraints |-> <<>>]

constraintTypes == <<"self", "parent", "responsible">>

\* Buffer.readUInt32BE(): the 32-bit big-endian integer of a 4-byte buffer, kept
\* as its two 16-bit halves <<high, low>> (the value is high * 65536 + low).
readUInt32BE(buffer) == <<buffer[1] * 256 + buffer[2], buffer[3] * 256 + buffer[4]>>

\* (as validHeaders, with 0xCAFEBABE of a universal binary)
validHeadersWithUniversal == {<<65261, 64207>>, <<53242, 60926>>, <<51966, 47806>>}

\* 0xFEEDFACF and 0xCFFAEDFE
validHeaders == {<<65261, 64207>>, <<53242, 60926>>}

\* What the first bytes of a file may be (at most 4 are read).
FileStarts ==
  { <<254, 237, 250, 207>>, <<207, 250, 237, 254>>, <<202, 254, 186, 190>>,
    <<0, 0, 0, 0>>, <<254, 237, 250>>, <<254, 237>>, <<>> }

\* What the files of the bundle start with: a Mach-O header each ...
baseContent ==
  [n \in Nodes |-> IF n = 12 THEN <<207, 250, 237, 254>> ELSE <<254, 237, 250, 207>>]

\* ... but for one file the walker inspects, which starts with anything.
Contents ==
  { [baseContent EXCEPT ![n] = bytes] : n \in {6, 12, 15}, bytes \in FileStarts }

\* A call of a function: its argument and, once it has returned, <<result>>.
Call(op, input) == [op |-> op, input |-> input, result |-> <<>>]
NoCall == Call("none", <<>>)

\* file.read({buffer: Buffer.alloc(4), length: 4}): the zero-filled buffer with
\* the bytes read copied to its front.
readInto(bytes) == [i \in 1..4 |-> IF i <= Len(bytes) THEN bytes[i] ELSE 0]

\* The program before sign() has done anything.
Start(trees, configs, envs, contents) ==
  /\ pc = "start"
  /\ error = "none"
  /\ env \in envs
  /\ configFile \in configs
  /\ signingConfig = NoConfig
  /\ tree \in trees
  /\ rm = <<>>
  /\ plists = <<>>
  /\ wroteDefaultEntitlements = FALSE
  /\ stack = <<>>
  /\ handles = {}
  /\ children = {}
  /\ filePath = 0
  /\ args = NoArgs
  /\ typeIndex = 0
  /\ yielded = <<>>
  /\ verified = <<>>
  /\ signLog = <<>>
  /\ writes = <<>>
  /\ visited = {}
  /\ deepVerifies = <<>>
  /\ stages = {}
  /\ dmgFile = "none"
  /\ bytesOf \in contents
  /\ bundle = tree
  /\ skipped = {}
  /\ inspected = {}
  /\ listed = [n \in Nodes |-> 0]

InitOf(trees, configs, envs, contents) ==
  /\ Start(trees, configs, envs, contents)
  /\ call = NoCall

programVars ==
  << pc, error, env, configFile, signingConfig, tree, rm, plists,
     wroteDefaultEntitlements, stack, handles, children, filePath, args,
     typeIndex, yielded, verified, signLog, writes, visited, deepVerifies,
     stages, dmgFile, bytesOf, bundle, skipped, inspected, listed >>

auditVars == << skipped, inspected, listed >>
histVars ==
  << yielded, verified, signLog, writes, visited, deepVerifies, stages, auditVars >>
walkVars == << stack, handles >>
bodyVars == << filePath, args, typeIndex >>
diskVars == << tree, rm, plists >>
inputVars == << env, configFile, bytesOf, bundle, call >>

\* sign() throws: the promise it returned rejects.
Throw(what) == pc' = "failed" /\ error' = what

\* ------------------------------------------------------- sign(), lines 35-62
\* Lines 35-42: the certificate fingerprint is required.
CheckFingerprint ==
  /\ pc = "start"
  /\ LET certFingerprint == orEmpty(env.CSC_FINGERPRINT)
     IN IF Len(certFingerprint) < 1
        THEN Throw("CSC_FINGERPRINT")
        ELSE pc' = "readConfig" /\ error' = error
  /\ UNCHANGED << inputVars, signingConfig, diskVars, wroteDefaultEntitlements,
                  walkVars, children, bodyVars, histVars, dmgFile >>

\* Lines 44-56: both configuration files are read (either read may fail), then
\* every deletion of `remove` is started.
ReadConfig ==
  /\ pc = "readConfig"
  /\ \E ok \in BOOLEAN :
       IF ok
       THEN /\ signingConfig' = configFile
            /\ rm' = [i \in 1..Len(configFile.remove) |-> "started"]
            /\ pc' = "remove"
            /\ error' = error
       ELSE /\ Throw("readFile")
            /\ UNCHANGED << signingConfig, rm >>
  /\ UNCHANGED << inputVars, tree, plists, wroteDefaultEntitlements, walkVars,
                  children, bodyVars, histVars, dmgFile >>

\* Line 57, fs.promises.rm(path, {recursive: true}): without `force` a path
\* that does not exist is an error.
RmLookup(i) ==
  /\ i \in DOMAIN rm
  /\ rm[i] = "started"
  /\ LET target == NodeAt(signingConfig.remove[i])
     IN rm' = [rm EXCEPT ![i] = IF target \cap tree # {} THEN "found" ELSE "rejected"]
  /\ UNCHANGED << pc, error, inputVars, signingConfig, tree, plists,
                  wroteDefaultEntitlements, walkVars, children, bodyVars,
                  histVars, dmgFile >>

\* ... and what exists is deleted with everything beneath it.
RmDelete(i) ==
  /\ i \in DOMAIN rm
  /\ rm[i] = "found"
  /\ tree' = tree \ UNION {Subtree(n) : n \in NodeAt(signingConfig.remove[i])}
  /\ rm' = [rm EXCEPT ![i] = "done"]
  /\ UNCHANGED << pc, error, inputVars, signingConfig, plists,
                  wroteDefaultEntitlements, walkVars, children, bodyVars,
                  histVars, dmgFile >>

\* Promise.all over the deletions: rejected once one of them is, fulfilled when
\* all are done, pending until then.
promiseAllNotAwaited(deletions) == "fulfilled"

promiseAll(deletions) ==
  IF \E i \in DOMAIN deletions : deletions[i] = "rejected" THEN "rejected"
  ELSE IF \A i \in DOMAIN deletions : deletions[i] = "done" THEN "fulfilled"
  ELSE "pending"

\* Line 56, await Promise.all(...): sign() goes on when it is fulfilled and
\* throws when it is rejected.
RemoveSettled ==
  /\ pc = "remove"
  /\ promiseAll(rm) # "pending"
  /\ IF promiseAll(rm) = "rejected"
     THEN Throw("rm")
     ELSE pc' = "mkdir" /\ error' = error
  /\ UNCHANGED << inputVars, signingConfig, diskVars, wroteDefaultEntitlements,
                  walkVars, children, bodyVars, histVars, dmgFile >>

walkStepsBundleFirst == <<"bundle", "loop">>

\* The two statements of findFilesToSign's body, in order: the loop over the
\* directory's entries (lines 161-212), then the check of the directory itself
\* (lines 214-222).
walkSteps == <<"loop", "bundle">>

\* A call of findFilesToSign(dir): the statement it is in, the entries readdir
\* returned and the position in them, the path being inspected (target: an
\* entry, or dir itself) and the place within the statement.
Frame(dir) ==
  [dir |-> dir, step |-> 1, entries |-> <<>>, index |-> 0, target |-> 0,
   at |-> "start", matched |-> FALSE]

\* Lines 62-63: the scratch directory is made, the generator is created and the
\* loop asks it for its first path.
Mkdir ==
  /\ pc = "mkdir"
  /\ \E ok \in BOOLEAN :
       IF ok
       THEN /\ pc' = "walk"
            /\ error' = error
            /\ stack' = <<Frame(appDirNode)>>
       ELSE /\ Throw("mkdir")
            /\ stack' = stack
  /\ UNCHANGED << inputVars, signingConfig, diskVars, wroteDefaultEntitlements,
                  handles, children, bodyVars, histVars, dmgFile >>

\* ------------------------------------------ findFilesToSign, lines 155-223
Top == stack[Len(stack)]
WithTop(frame) == [stack EXCEPT ![Len(stack)] = frame]

\* `continue`: on to the next entry of the innermost call.
NextEntry(frames) ==
  [frames EXCEPT ![Len(frames)] =
     [@ EXCEPT !.index = @ + 1, !.target = 0, !.at = "entry", !.matched = FALSE]]

\* (as Return, but the caller then checks and yields the directory as well)
ReturnThenCheck(frames) ==
  LET callers == SubSeq(frames, 1, Len(frames) - 1)
      walked == frames[Len(frames)].dir
  IN IF callers = <<>> THEN <<>>
     ELSE IF isBundleDir[walked]
     THEN [callers EXCEPT ![Len(callers)] = [@ EXCEPT !.target = walked, !.at = "verify"]]
     ELSE NextEntry(callers)

\* (as Return, but with the outermost call done the walk starts over)
ReturnRestartsWalk(frames) ==
  LET callers == SubSeq(frames, 1, Len(frames) - 1)
  IN IF callers = <<>> THEN <<Frame(appDirNode)>> ELSE NextEntry(callers)

\* The innermost call returns: its caller is at line 171, where a directory is
\* not a file, and continues; with no caller left the generator is done.
Return(frames) ==
  LET callers == SubSeq(frames, 1, Len(frames) - 1)
  IN IF callers = <<>> THEN <<>> ELSE NextEntry(callers)

\* The innermost call is done with a statement of its body: the next one
\* starts, or the call returns.
StepDone(frames) ==
  IF frames[Len(frames)].step = Len(walkSteps)
  THEN Return(frames)
  ELSE [frames EXCEPT ![Len(frames)] =
          [@ EXCEPT !.step = @ + 1, !.target = 0, !.at = "start", !.matched = FALSE]]

\* What follows the Presence Check or the yield of the current target: the
\* next entry after a file, the end of the statement after the directory.
After(frames) ==
  IF frames[Len(frames)].target = frames[Len(frames)].dir
  THEN StepDone(frames)
  ELSE NextEntry(frames)

\* With the generator done the loop ends and sign() goes on to line 104.
pcAfterWalk(frames) == IF frames = <<>> THEN "verifyApp" ELSE "walk"

Walking == pc = "walk" /\ stack # <<>>

\* Line 161: readdir lists the directory, in any order.
Readdir ==
  /\ Walking
  /\ Top.at = "start"
  /\ walkSteps[Top.step] = "loop"
  /\ \E entries \in Listings(Children(Top.dir) \cap tree) :
       /\ stack' = WithTop([Top EXCEPT !.entries = entries, !.index = 1, !.at = "entry"])
       /\ visited' = visited \cup {Top.dir} \cup Range(entries)
  /\ listed' = [listed EXCEPT ![Top.dir] = @ + 1]
  /\ UNCHANGED << pc, error, inputVars, signingConfig, diskVars,
                  wroteDefaultEntitlements, handles, children, bodyVars, yielded,
                  verified, signLog, writes, deepVerifies, stages, skipped,
                  inspected, dmgFile >>

\* Lines 162-179: what to do with the next entry.
Entry ==
  /\ Walking
  /\ Top.at = "entry"
  /\ Top.index <= Len(Top.entries)
  /\ LET file == Top.entries[Top.index]
     IN /\ stack' =
          IF isSymbolicLink(file) THEN NextEntry(stack)
          ELSE IF isDirectory(file)
            THEN Append(WithTop([Top EXCEPT !.at = "recursed"]), Frame(file))
          ELSE IF ~isFile(file) THEN NextEntry(stack)
          ELSE IF bundleExecutable[file] THEN NextEntry(stack)
          ELSE WithTop([Top EXCEPT !.target = file, !.at = "open"])
        /\ skipped' =
             IF isFile(file) /\ bundleExecutable[file]
             THEN skipped \cup {file}
             ELSE skipped
  /\ UNCHANGED << pc, error, inputVars, signingConfig, diskVars,
                  wroteDefaultEntitlements, handles, children, bodyVars, yielded,
                  verified, signLog, writes, visited, deepVerifies, stages,
                  inspected, listed, dmgFile >>

\* How the inspection of a file's header went: "completed" when open, read and
\* close all fulfilled, "failed" when one of them rejected (line 200).
Inspection(file, outcome) == [file |-> file, outcome |-> outcome]

\* Line 184: fs.promises.open; a failure is caught at line 200.
Open ==
  /\ Walking
  /\ Top.at = "open"
  /\ \E ok \in BOOLEAN :
       IF ok
       THEN /\ handles' = handles \cup {Top.target}
            /\ stack' = WithTop([Top EXCEPT !.at = "read"])
            /\ inspected' = inspected
       ELSE /\ handles' = handles
            /\ stack' = NextEntry(stack)
            /\ inspected' = inspected \cup {Inspection(Top.target, "failed")}
  /\ UNCHANGED << pc, error, inputVars, signingConfig, diskVars,
                  wroteDefaultEntitlements, children, bodyVars, yielded, verified,
                  signLog, writes, visited, deepVerifies, stages, skipped, listed,
                  dmgFile >>

\* Lines 187-196: the header is read and compared; a failed read throws. Either
\* way the finally block of line 197 is next.
Read ==
  /\ Walking
  /\ Top.at = "read"
  /\ \E ok \in BOOLEAN :
       LET header == readUInt32BE(readInto(bytesOf[Top.target]))
       IN /\ stack' = WithTop([Top EXCEPT !.at = "close",
                                          !.matched = ok /\ header \in validHeaders])
          /\ inspected' =
               IF ok THEN inspected ELSE inspected \cup {Inspection(Top.target, "failed")}
  /\ visited' = visited \cup {Top.target}
  /\ UNCHANGED << pc, error, inputVars, signingConfig, diskVars,
                  wroteDefaultEntitlements, handles, children, bodyVars, yielded,
                  verified, signLog, writes, deepVerifies, stages, skipped, listed,
                  dmgFile >>

handlesNotClosed(open, file) == open

\* file.close() in the finally block of line 197.
handlesAfterClose(open, file) == open \ {file}

\* Line 198: the handle is closed, which releases it even when close() rejects;
\* then `continue` (lines 195, 202) unless the header matched and nothing threw.
Close ==
  /\ Walking
  /\ Top.at = "close"
  /\ handles' = handlesAfterClose(handles, Top.target)
  /\ \E ok \in BOOLEAN :
       IF ok
       THEN /\ stack' = IF Top.matched THEN WithTop([Top EXCEPT !.at = "verify"])
                        ELSE NextEntry(stack)
            /\ inspected' =
                 IF Inspection(Top.target, "failed") \in inspected THEN inspected
                 ELSE inspected \cup {Inspection(Top.target, "completed")}
       ELSE /\ stack' = NextEntry(stack)
            /\ inspected' = inspected \cup {Inspection(Top.target, "failed")}
  /\ UNCHANGED << pc, error, inputVars, signingConfig, diskVars,
                  wroteDefaultEntitlements, children, bodyVars, yielded, verified,
                  signLog, writes, visited, deepVerifies, stages, skipped, listed,
                  dmgFile >>

\* Line 212: the loop ends after the last entry.
EndOfLoop ==
  /\ Walking
  /\ Top.at = "entry"
  /\ Top.index > Len(Top.entries)
  /\ stack' = StepDone(stack)
  /\ pc' = pcAfterWalk(stack')
  /\ UNCHANGED << error, inputVars, signingConfig, diskVars,
                  wroteDefaultEntitlements, handles, children, bodyVars, histVars,
                  dmgFile >>

\* Line 214: a directory named *.app or *.framework is checked itself.
BundleCheck ==
  /\ Walking
  /\ Top.at = "start"
  /\ walkSteps[Top.step] = "bundle"
  /\ stack' = IF isBundleDir[Top.dir]
              THEN WithTop([Top EXCEPT !.target = Top.dir, !.at = "verify"])
              ELSE StepDone(stack)
  /\ pc' = pcAfterWalk(stack')
  /\ UNCHANGED << error, inputVars, signingConfig, diskVars,
                  wroteDefaultEntitlements, handles, children, bodyVars, histVars,
                  dmgFile >>

Codesign(mode, path) == [mode |-> mode, path |-> path]

\* Lines 207, 217: the Presence Check is started.
SpawnPresenceCheck ==
  /\ Walking
  /\ Top.at = "verify"
  /\ children' = children \cup {Codesign("verify", Top.target)}
  /\ stack' = WithTop([Top EXCEPT !.at = "verifying"])
  /\ UNCHANGED << pc, error, inputVars, signingConfig, diskVars,
                  wroteDefaultEntitlements, handles, bodyVars, histVars, dmgFile >>

\* spawnFile rejects when the process exits with a status other than 0.
spawnFileRejects(status) == status # 0

\* Lines 206-211, 216-221: the path counts as already signed when the await of
\* the check does not throw; the yield is in the catch block.
alreadySignedNever(status) == FALSE

alreadySigned(status) == ~spawnFileRejects(status)

\* Lines 208-211, 218-221: an already signed path is skipped; any other is
\* yielded to the loop of sign().
PresenceCheckExit ==
  /\ Walking
  /\ Top.at = "verifying"
  /\ \E status \in {0, 1} :
       /\ verified' = Append(verified, [path |-> Top.target, status |-> status])
       /\ IF ~alreadySigned(status)
          THEN /\ stack' = WithTop([Top EXCEPT !.at = "yielded"])
               /\ yielded' = Append(yielded, Top.target)
               /\ filePath' = Top.target
               /\ pc' = "entitlements"
          ELSE /\ stack' = After(stack)
               /\ pc' = pcAfterWalk(stack')
               /\ UNCHANGED << yielded, filePath >>
  /\ children' = children \ {Codesign("verify", Top.target)}
  /\ UNCHANGED << auditVars, error, inputVars, signingConfig, diskVars,
                  wroteDefaultEntitlements, handles, args, typeIndex, signLog,
                  writes, visited, deepVerifies, stages, dmgFile >>

\* The loop asks for the next path: the generator goes on after its yield.
Resume ==
  /\ Walking
  /\ Top.at = "yielded"
  /\ stack' = After(stack)
  /\ pc' = pcAfterWalk(stack')
  /\ UNCHANGED << error, inputVars, signingConfig, diskVars,
                  wroteDefaultEntitlements, handles, children, bodyVars, histVars,
                  dmgFile >>

\* --------------------------------------------- sign(), loop body, lines 64-101
findLastByPath(records, path) ==
  LET hits == {i \in 1..Len(records) : path \in Range(records[i].paths)}
  IN IF hits = {} THEN 0 ELSE CHOOSE i \in hits : \A j \in hits : i >= j

\* Array.prototype.find(e => e.paths.includes(path)): the position of the first
\* record whose paths include the path, 0 when there is none.
findByPath(records, path) ==
  LET hits == {i \in 1..Len(records) : path \in Range(records[i].paths)}
  IN IF hits = {} THEN 0 ELSE CHOOSE i \in hits : \A j \in hits : i <= j

defaultName == <<"default">>

entitlementFileShared(entitlementName) == <<(<<"default">>), "entitlement">>

\* `${ entitlementName }-entitlement.plist` in plistsDir
entitlementFileOf(entitlementName) == <<entitlementName, "entitlement">>

\* `${ fileHash }-constraint-${ constraintType }.plist` in plistsDir
constraintsFileOf(fileHash, constraintType) == <<fileHash, "constraint", constraintType>>

\* Lines 69-76: the name and the entitlements that apply to a path.
resolveEntitlements(config, path) ==
  LET entitlementsOverride == findByPath(config.entitlements.overrides, path)
  IN IF entitlementsOverride # 0
     THEN [entitlementName |-> sha256Base64url(path),
           entitlements |-> config.entitlements.overrides[entitlementsOverride].entitlements]
     ELSE [entitlementName |-> defaultName,
           entitlements |-> config.entitlements.default]

mustWriteAlways(wrote, entitlementName) == TRUE

\* Line 79: whether the entitlements file is written for this path.
mustWriteEntitlements(wrote, entitlementName) ==
  ~wrote \/ entitlementName # defaultName

\* Line 81: Object.fromEntries(entitlements.map(k => [k, true]))
entitlementsObject(entitlements) == [k \in Range(entitlements) |-> TRUE]

\* (as constraintOf, but reading the record's self field for every type)
constraintOfSelf(config, path, constraintType) ==
  LET launchConstraints == findByPath(config.constraints, path)
  IN IF launchConstraints = 0 THEN <<>>
     ELSE IF "self" \in DOMAIN config.constraints[launchConstraints].categories
     THEN <<config.constraints[launchConstraints].categories["self"]>>
     ELSE <<>>

\* Lines 87, 91: launchConstraints?.[constraintType]; <<>> when there is none.
constraintOf(config, path, constraintType) ==
  LET launchConstraints == findByPath(config.constraints, path)
  IN IF launchConstraints = 0 THEN <<>>
     ELSE IF constraintType \in DOMAIN config.constraints[launchConstraints].categories
     THEN <<config.constraints[launchConstraints].categories[constraintType]>>
     ELSE <<>>

WriteFile(file, content) ==
  /\ plists' = (file :> content) @@ plists
  /\ writes' = Append(writes, file)

\* Lines 64-84: the entitlements of the yielded path; their file is written
\* unless it is the default one and was written before.
Entitlements ==
  /\ pc = "entitlements"
  /\ LET resolved == resolveEntitlements(signingConfig, relPath[filePath])
         entitlementFile == entitlementFileOf(resolved.entitlementName)
     IN IF mustWriteEntitlements(wroteDefaultEntitlements, resolved.entitlementName)
        THEN \E ok \in BOOLEAN :
               IF ok
               THEN /\ WriteFile(entitlementFile,
                                 plistBuild(entitlementsObject(resolved.entitlements)))
                    /\ wroteDefaultEntitlements' =
                         (wroteDefaultEntitlements \/ resolved.entitlementName = defaultName)
                    /\ args' = [entitlements |-> entitlementFile, launchConstraints |-> <<>>]
                    /\ typeIndex' = 1
                    /\ pc' = "constraints"
                    /\ UNCHANGED << error, stack >>
               ELSE /\ Throw("writeFile")
                    /\ stack' = <<>>
                    /\ UNCHANGED << plists, writes, wroteDefaultEntitlements, args,
                                    typeIndex >>
        ELSE /\ args' = [entitlements |-> entitlementFile, launchConstraints |-> <<>>]
             /\ typeIndex' = 1
             /\ pc' = "constraints"
             /\ UNCHANGED << error, stack, plists, writes, wroteDefaultEntitlements >>
  /\ UNCHANGED << auditVars, inputVars, signingConfig, tree, rm, handles, children,
                  filePath,
                  yielded, verified, signLog, visited, deepVerifies, stages,
                  dmgFile >>

\* Lines 90-99, one constraint type: its file and its flag when the matching
\* record has it.
Constraint ==
  /\ pc = "constraints"
  /\ LET constraintType == constraintTypes[typeIndex]
         constraint == constraintOf(signingConfig, relPath[filePath], constraintType)
         constraintsFile ==
           constraintsFileOf(sha256Base64url(relPath[filePath]), constraintType)
         next == IF typeIndex = Len(constraintTypes) THEN "codesign" ELSE "constraints"
     IN IF constraint # <<>>
        THEN \E ok \in BOOLEAN :
               IF ok
               THEN /\ WriteFile(constraintsFile,
                                 plistBuild(evaluateConstraints(constraint[1],
                                                                env.AC_TEAMID)))
                    /\ args' = [args EXCEPT !.launchConstraints =
                                  Append(@, <<constraintType, constraintsFile>>)]
                    /\ typeIndex' = typeIndex + 1
                    /\ pc' = next
                    /\ UNCHANGED << error, stack >>
               ELSE /\ Throw("writeFile")
                    /\ stack' = <<>>
                    /\ UNCHANGED << plists, writes, args, typeIndex >>
        ELSE /\ typeIndex' = typeIndex + 1
             /\ pc' = next
             /\ UNCHANGED << error, stack, plists, writes, args >>
  /\ UNCHANGED << auditVars, inputVars, signingConfig, tree, rm, wroteDefaultEntitlements,
                  handles, children, filePath, yielded, verified, signLog, visited,
                  deepVerifies, stages, dmgFile >>

pcSignNotAwaited == "walk"

\* Line 101: sign() awaits the promise of spawnFile.
pcAwaitSign == "signing"

\* Line 101: codesign --sign is started with the collected arguments.
SpawnSign ==
  /\ pc = "codesign"
  /\ children' = children \cup {Codesign("sign", filePath)}
  /\ signLog' = Append(signLog,
                       [filePath |-> filePath, args |-> args, files |-> plists,
                        status |-> -1])
  /\ pc' = pcAwaitSign
  /\ UNCHANGED << auditVars, error, inputVars, signingConfig, diskVars,
                  wroteDefaultEntitlements, walkVars, bodyVars, yielded, verified,
                  writes, visited, deepVerifies, stages, dmgFile >>

\* Line 101, the await, which is in no try block: a rejection leaves the loop
\* and sign(); otherwise the loop asks the generator for the next path.
pcAfterSignCaught(status) == "walk"

pcAfterSign(status) == IF spawnFileRejects(status) THEN "failed" ELSE "walk"

\* Line 101, codesign --sign has exited. Leaving the loop ends the generator.
SignExit ==
  /\ pc = "signing"
  /\ \E status \in {0, 1} :
       /\ signLog' = [signLog EXCEPT ![Len(signLog)].status = status]
       /\ pc' = pcAfterSign(status)
       /\ IF pc' = "failed"
          THEN error' = "codesign --sign" /\ stack' = <<>>
          ELSE error' = error /\ stack' = stack
  /\ children' = children \ {Codesign("sign", filePath)}
  /\ filePath' = 0
  /\ args' = NoArgs
  /\ typeIndex' = 0
  /\ UNCHANGED << auditVars, inputVars, signingConfig, diskVars, wroteDefaultEntitlements,
                  handles, yielded, verified, writes, visited, deepVerifies,
                  stages, dmgFile >>

\* ----------------------------------------------------- sign(), lines 104-149
appBundle == 0
diskImage == -1

\* Line 105: the deep, strict verification of appDir is started.
SpawnVerifyApp ==
  /\ pc = "verifyApp"
  /\ children' = children \cup {Codesign("verify --deep", appBundle)}
  /\ deepVerifies' = Append(deepVerifies, -1)
  /\ pc' = "verifyingApp"
  /\ UNCHANGED << auditVars, error, inputVars, signingConfig, diskVars,
                  wroteDefaultEntitlements, walkVars, bodyVars, yielded, verified,
                  signLog, writes, visited, stages, dmgFile >>

\* Line 105, the await, which is in no try block: a rejection leaves sign().
pcAfterVerifyCaught(status) == "display"

pcAfterVerify(status) == IF spawnFileRejects(status) THEN "failed" ELSE "display"

VerifyAppExit ==
  /\ pc = "verifyingApp"
  /\ \E status \in {0, 1} :
       /\ deepVerifies' = [deepVerifies EXCEPT ![Len(deepVerifies)] = status]
       /\ pc' = pcAfterVerify(status)
       /\ error' = IF pc' = "failed" THEN "codesign --verify" ELSE error
  /\ children' = children \ {Codesign("verify --deep", appBundle)}
  /\ UNCHANGED << auditVars, inputVars, signingConfig, diskVars, wroteDefaultEntitlements,
                  walkVars, bodyVars, yielded, verified, signLog, writes, visited,
                  stages, dmgFile >>

\* Line 106: codesign --display --entitlements.
SpawnDisplay ==
  /\ pc = "display"
  /\ children' = children \cup {Codesign("display", appBundle)}
  /\ pc' = "displaying"
  /\ UNCHANGED << error, inputVars, signingConfig, diskVars,
                  wroteDefaultEntitlements, walkVars, bodyVars, histVars, dmgFile >>

DisplayExit ==
  /\ pc = "displaying"
  /\ \E status \in {0, 1} :
       IF spawnFileRejects(status)
       THEN Throw("codesign --display")
       ELSE pc' = "notarize" /\ error' = error
  /\ children' = children \ {Codesign("display", appBundle)}
  /\ UNCHANGED << inputVars, signingConfig, diskVars, wroteDefaultEntitlements,
                  walkVars, bodyVars, histVars, dmgFile >>

\* Lines 108-126: notarization is skipped on --skip-notarize, started when all
\* three credentials are given, and an error otherwise.
CheckNotarize ==
  /\ pc = "notarize"
  /\ \E skipNotarize \in BOOLEAN :
       IF skipNotarize
       THEN pc' = "build" /\ UNCHANGED << error, stages >>
       ELSE IF truthy(env.APPLEID) /\ truthy(env.AC_PASSWORD) /\ truthy(env.AC_TEAMID)
       THEN pc' = "notarizing" /\ stages' = stages \cup {"notarize"} /\ error' = error
       ELSE Throw("cannot notarize") /\ stages' = stages
  /\ UNCHANGED << auditVars, inputVars, signingConfig, diskVars, wroteDefaultEntitlements,
                  walkVars, children, bodyVars, yielded, verified, signLog, writes,
                  visited, deepVerifies, dmgFile >>

\* Line 112: the await of notarize().
Notarized ==
  /\ pc = "notarizing"
  /\ \E ok \in BOOLEAN :
       IF ok THEN pc' = "build" /\ error' = error ELSE Throw("notarize")
  /\ UNCHANGED << inputVars, signingConfig, diskVars, wroteDefaultEntitlements,
                  walkVars, children, bodyVars, histVars, dmgFile >>

\* Lines 128-146: the disk image is built; build() may fail, or return no .dmg.
Build ==
  /\ pc = "build"
  /\ stages' = stages \cup {"build"}
  /\ \E results \in {"dmg", "other", "rejected"} :
       CASE results = "dmg" -> pc' = "signDmg" /\ error' = error
         [] results = "other" -> Throw("Could not find signed disk image")
         [] results = "rejected" -> Throw("build")
  /\ UNCHANGED << auditVars, inputVars, signingConfig, diskVars, wroteDefaultEntitlements,
                  walkVars, children, bodyVars, yielded, verified, signLog, writes,
                  visited, deepVerifies, dmgFile >>

\* Line 147: the disk image is signed.
SpawnSignDmg ==
  /\ pc = "signDmg"
  /\ children' = children \cup {Codesign("sign", diskImage)}
  /\ stages' = stages \cup {"signDmg"}
  /\ pc' = "signingDmg"
  /\ UNCHANGED << auditVars, error, inputVars, signingConfig, diskVars,
                  wroteDefaultEntitlements, walkVars, bodyVars, yielded, verified,
                  signLog, writes, visited, deepVerifies, dmgFile >>

\* Lines 147-149: sign() returns the disk image's path.
SignDmgExit ==
  /\ pc = "signingDmg"
  /\ \E status \in {0, 1} :
       IF spawnFileRejects(status)
       THEN Throw("codesign --sign dmg") /\ dmgFile' = dmgFile
       ELSE pc' = "done" /\ error' = error /\ dmgFile' = "dmg"
  /\ children' = children \ {Codesign("sign", diskImage)}
  /\ UNCHANGED << inputVars, signingConfig, diskVars, wroteDefaultEntitlements,
                  walkVars, bodyVars, histVars >>

\* ---------------------------------------------------------- specifications
Next ==
  \/ CheckFingerprint
  \/ ReadConfig
  \/ \E i \in 1..(MaxRemove + 1) : RmLookup(i)
  \/ \E i \in 1..(MaxRemove + 1) : RmDelete(i)
  \/ RemoveSettled
  \/ Mkdir
  \/ Readdir
  \/ Entry
  \/ Open
  \/ Read
  \/ Close
  \/ EndOfLoop
  \/ BundleCheck
  \/ SpawnPresenceCheck
  \/ PresenceCheckExit
  \/ Resume
  \/ Entitlements
  \/ Constraint
  \/ SpawnSign
  \/ SignExit
  \/ SpawnVerifyApp
  \/ VerifyAppExit
  \/ SpawnDisplay
  \/ DisplayExit
  \/ CheckNotarize
  \/ Notarized
  \/ Build
  \/ SpawnSignDmg
  \/ SignDmgExit

\* sign() starts on any of the trees, under any of the environments, with any
\* of the configurations: each varied with the others at their base.
Init ==
  \/ InitOf(Trees, {baseConfig}, {fullEnv}, {baseContent})
  \/ InitOf({Nodes}, BaseConfigs, Envs, {baseContent})
  \/ InitOf({Nodes}, EntitlementConfigs, {fullEnv}, {baseContent})
  \/ InitOf({Nodes}, ConstraintConfigs, {fullEnv, noTeamEnv}, {baseContent})
  \/ InitOf({Nodes}, RemoveConfigs, {fullEnv}, {baseContent})
  \/ InitOf({Nodes}, {NoConfig}, {fullEnv}, Contents)

Spec == Init /\ [][Next]_vars

\* sign() on each of the trees. Node runs whatever continuation is ready, and
\* every process and file operation that was started ends: a step that can be
\* taken is taken.
InitTrees == InitOf(Trees, {baseConfig}, {fullEnv}, {baseContent})

FairSpec == InitTrees /\ [][Next]_vars /\ WF_vars(Next)

\* ------------------------------------------- isBundleExecutable on its own
\* Names of path components, and the paths made of them: relative ones of up to
\* MaxComponents components, and the same below /w.
ComponentNames ==
  {"RD.app", "Contents", "MacOS", "RD", "D", "F.framework", "Versions", "F"}

ClassifyPaths ==
  LET relatives == {c \in SeqsUpTo(ComponentNames, MaxComponents) : Len(c) >= 3}
  IN relatives \cup {workDir \o c : c \in relatives}

\* isBundleExecutable(fullPath) is called and returns.
Classify ==
  /\ call.op = "isBundleExecutable"
  /\ call.result = <<>>
  /\ call' = [call EXCEPT !.result = <<isBundleExecutable(PathString(call.input))>>]
  /\ UNCHANGED programVars

InitClassify ==
  /\ Start({Nodes}, {NoConfig}, {fullEnv}, {baseContent})
  /\ call \in {Call("isBundleExecutable", path) : path \in ClassifyPaths}

NextClassify == Classify

SpecClassify == InitClassify /\ [][NextClassify]_vars

\* ------------------------------------------ evaluateConstraints on its own
\* Values of a declaration: strings, a number, a boolean, null, arrays of those,
\* objects holding one of those, arrays of such objects, objects holding such
\* arrays.
Leaves == {Str("${AC_TEAMID}"), Str("x"), Str(""), Num(1), Bool(TRUE), Null}

Values ==
  LET arrays == {Arr(elems) : elems \in SeqsUpTo(Leaves, MaxElements)}
      objects == {Obj(<<>>)} \cup {Obj("key" :> leaf) : leaf \in Leaves}
  IN Leaves \cup arrays \cup objects
       \cup {Arr(<<object>>) : object \in objects}
       \cup {Obj("$in" :> array) : array \in arrays}

Declarations == {Obj("team-identifier" :> value) : value \in Values}

\* evaluateConstraints(constraint) is called and returns; then it is called on
\* what it returned.
Evaluate ==
  /\ call.op = "evaluateConstraints"
  /\ Len(call.result) < 2
  /\ LET constraint == IF call.result = <<>> THEN call.input ELSE call.result[1]
     IN call' = [call EXCEPT
                  !.result = Append(@, evaluateConstraints(constraint, env.AC_TEAMID))]
  /\ UNCHANGED programVars

InitEvaluate ==
  /\ Start({Nodes}, {NoConfig}, Envs, {baseContent})
  /\ call \in {Call("evaluateConstraints", declaration) : declaration \in Declarations}

NextEvaluate == Evaluate

SpecEvaluate == InitEvaluate /\ [][NextEvaluate]_vars

\* ------------------------------------------------------------- properties
\* p lies strictly inside directory d.
Inside(p, d) == d \in Ancestors(p)

Count(seq, x) == Cardinality({i \in DOMAIN seq : seq[i] = x})

signedPaths == {signLog[i].filePath : i \in DOMAIN signLog}

\* The positions of the records whose paths include the path.
Hits(records, path) == {k \in DOMAIN records : path \in Range(records[k].paths)}

defaultFile == <<(<<"default">>), "entitlement">>

\* C1: of two yielded paths of which one lies strictly inside the other, the
\* inner one is yielded first, and its codesign --sign is issued first.
C1_ChildrenBeforeParents ==
  /\ \A i, j \in DOMAIN yielded :
       Inside(yielded[j], yielded[i]) => j < i
  /\ \A i, j \in DOMAIN signLog :
       Inside(signLog[j].filePath, signLog[i].filePath) => j < i

C1_Witness ==
  /\ Len(signLog) >= 3
  /\ \E i, j \in DOMAIN signLog :
       /\ Inside(signLog[j].filePath, signLog[i].filePath)
       /\ signLog[i].filePath # appDirNode

\* C2: once a codesign --sign has exited with a status other than 0, it is the
\* last one issued and the last path yielded, the walk is over, sign() has
\* thrown, and verification, notarization and the disk image were not reached.
C2_SignFailureIsFatal ==
  \A i \in DOMAIN signLog :
    signLog[i].status = 1 =>
      /\ i = Len(signLog)
      /\ Len(yielded) = i
      /\ pc = "failed"
      /\ error = "codesign --sign"
      /\ stack = <<>>
      /\ children = {}
      /\ deepVerifies = <<>>
      /\ stages = {}
      /\ dmgFile = "none"

C2_Witness ==
  \E i \in DOMAIN signLog : signLog[i].status = 1 /\ i >= 2

\* C3: a path whose Presence Check exited with status 0 is neither yielded nor
\* signed, and the paths yielded are exactly those whose Presence Check exited
\* with another status, in the order of the checks.
C3_PresenceCheckDecides ==
  /\ \A i \in DOMAIN verified :
       verified[i].status = 0 =>
         /\ verified[i].path \notin Range(yielded)
         /\ verified[i].path \notin signedPaths
  /\ LET failed == SelectSeq(verified, LAMBDA v : v.status # 0)
     IN yielded = [i \in 1..Len(failed) |-> failed[i].path]

C3_Witness ==
  /\ pc = "done"
  /\ \E i, j \in DOMAIN verified :
       /\ verified[i].status = 0 /\ isFile(verified[i].path)
       /\ verified[j].status = 0 /\ isDirectory(verified[j].path)
  /\ \E i \in DOMAIN verified : verified[i].status # 0

\* C4: the deep verification runs at most once, only with the generator done
\* and every codesign --sign of the run exited with status 0; when it fails,
\* sign() has thrown and no later stage is reached; a later stage is reached
\* only after it succeeded.
C4_VerifyIsFinalGate ==
  /\ Len(deepVerifies) <= 1
  /\ deepVerifies # <<>> =>
       /\ stack = <<>>
       /\ filePath = 0
       /\ Len(signLog) = Len(yielded)
       /\ \A i \in DOMAIN signLog : signLog[i].status = 0
  /\ (deepVerifies # <<>> /\ deepVerifies[1] = 1) =>
       /\ pc = "failed"
       /\ error = "codesign --verify"
       /\ stages = {}
       /\ dmgFile = "none"
  /\ (stages # {} \/ dmgFile # "none") => deepVerifies = <<0>>

C4_Witness ==
  /\ deepVerifies = <<1>>
  /\ Len(signLog) >= 2

\* C5: a path in no override's paths is signed with the file of the name
\* "default", which holds the default entitlements; that file is never written
\* twice, and has been written once when such a path is signed.
C5_DefaultWrittenOnce ==
  /\ \A i \in DOMAIN signLog :
       Hits(signingConfig.entitlements.overrides, relPath[signLog[i].filePath]) = {} =>
         /\ signLog[i].args.entitlements = defaultFile
         /\ defaultFile \in DOMAIN signLog[i].files
         /\ signLog[i].files[defaultFile].plist =
              [k \in Range(signingConfig.entitlements.default) |-> TRUE]
  /\ Count(writes, defaultFile) <= 1
  /\ (\E i \in DOMAIN signLog :
        Hits(signingConfig.entitlements.overrides, relPath[signLog[i].filePath]) = {})
       => Count(writes, defaultFile) = 1

C5_Witness ==
  \E i, j, k \in DOMAIN signLog :
    /\ i < j /\ j < k
    /\ signLog[i].args.entitlements = defaultFile
    /\ signLog[j].args.entitlements # defaultFile
    /\ signLog[k].args.entitlements = defaultFile

\* C6: a path in some override's paths is signed with a file named by the
\* digest of the path, never "default", which holds the entitlements of the
\* first such override; different overridden paths get different files.
C6_OverrideResolution ==
  /\ \A i \in DOMAIN signLog :
       LET path == relPath[signLog[i].filePath]
           overrides == signingConfig.entitlements.overrides
           hits == Hits(overrides, path)
       IN hits # {} =>
            /\ signLog[i].args.entitlements = <<(<<"sha256">> \o path), "entitlement">>
            /\ signLog[i].args.entitlements # defaultFile
            /\ signLog[i].args.entitlements \in DOMAIN signLog[i].files
            /\ \E first \in hits :
                 /\ \A k \in hits : first <= k
                 /\ signLog[i].files[signLog[i].args.entitlements].plist =
                      [k \in Range(overrides[first].entitlements) |-> TRUE]
  /\ \A i, j \in DOMAIN signLog :
       (/\ Hits(signingConfig.entitlements.overrides, relPath[signLog[i].filePath]) # {}
        /\ Hits(signingConfig.entitlements.overrides, relPath[signLog[j].filePath]) # {}
        /\ signLog[i].filePath # signLog[j].filePath)
         => signLog[i].args.entitlements # signLog[j].args.entitlements

C6_Witness ==
  /\ \E i \in DOMAIN signLog :
       LET overrides == signingConfig.entitlements.overrides
           hits == Hits(overrides, relPath[signLog[i].filePath])
       IN /\ Cardinality(hits) = 2
          /\ \E a, b \in hits : overrides[a].entitlements # overrides[b].entitlements
  /\ \E i, j \in DOMAIN signLog :
       /\ signLog[i].filePath # signLog[j].filePath
       /\ signLog[i].args.entitlements # defaultFile
       /\ signLog[j].args.entitlements # defaultFile

\* Whether the first constraint record whose paths include the path has the
\* category.
HasCategory(path, category) ==
  LET hits == Hits(signingConfig.constraints, path)
  IN /\ hits # {}
     /\ \E first \in hits :
          /\ \A k \in hits : first <= k
          /\ category \in DOMAIN signingConfig.constraints[first].categories

\* C7: for a signed path and each of self, parent and responsible: when the
\* matching record has the category, the codesign call carries one flag of that
\* category, with the path's constraint file of that category, which was written
\* once; otherwise it carries no such flag and that file was never written.
C7_ConstraintPerCategory ==
  \A i \in DOMAIN signLog, category \in {"self", "parent", "responsible"} :
    LET path == relPath[signLog[i].filePath]
        given == signLog[i].args.launchConstraints
        flags == {k \in DOMAIN given : given[k][1] = category}
        file == <<(<<"sha256">> \o path), "constraint", category>>
    IN IF HasCategory(path, category)
       THEN /\ Cardinality(flags) = 1
            /\ \A k \in flags : given[k][2] = file
            /\ file \in DOMAIN signLog[i].files
            /\ Count(writes, file) = 1
       ELSE /\ flags = {}
            /\ Count(writes, file) = 0

C7_Witness ==
  /\ \E i \in DOMAIN signLog :
       /\ HasCategory(relPath[signLog[i].filePath], "self")
       /\ ~HasCategory(relPath[signLog[i].filePath], "parent")
       /\ signLog[i].status = 0
  /\ \E i \in DOMAIN signLog :
       /\ HasCategory(relPath[signLog[i].filePath], "parent")
       /\ HasCategory(relPath[signLog[i].filePath], "responsible")
       /\ ~HasCategory(relPath[signLog[i].filePath], "self")
  /\ \E i \in DOMAIN signLog :
       Hits(signingConfig.constraints, relPath[signLog[i].filePath]) = {}

\* What the deletion of remove[i] deletes.
Removed(i) == UNION {Subtree(n) : n \in NodeAt(signingConfig.remove[i])}

\* C8: when the walker has listed a directory, every deletion is done; nothing
\* that `remove` names, nor anything beneath it, is listed, read, yielded or
\* signed; and with a deletion rejected the walk never starts.
C8_RemovedBeforeWalk ==
  /\ (visited # {} \/ stack # <<>> \/ yielded # <<>>) =>
       \A i \in DOMAIN rm : rm[i] = "done"
  /\ \A i \in DOMAIN rm :
       Removed(i) \cap (visited \cup Range(yielded) \cup signedPaths) = {}
  /\ (\E i \in DOMAIN rm : rm[i] = "rejected") =>
       /\ visited = {}
       /\ stack = <<>>
       /\ yielded = <<>>
       /\ signLog = <<>>
       /\ pc \in {"remove", "failed"}

C8_Witness ==
  /\ Len(rm) = 2
  /\ \E i \in DOMAIN rm :
       \E n \in NodeAt(signingConfig.remove[i]) :
         /\ isDirectory(n)
         /\ nodeParent[n] \in visited
  /\ signLog # <<>>
  /\ pc = "done"

\* C9: when sign() throws for a missing environment value, no deletion of
\* `remove` has been carried out and no codesign --sign has been issued.
C9_ConfigErrorBeforeDestruction ==
  error \in {"CSC_FINGERPRINT", "cannot notarize"} =>
    /\ \A i \in DOMAIN rm : rm[i] # "done"
    /\ signLog = <<>>

\* C10: no path is yielded twice and no path is passed to codesign --sign
\* twice.
C10_AtMostOnce ==
  /\ \A i, j \in DOMAIN yielded : yielded[i] = yielded[j] => i = j
  /\ \A i, j \in DOMAIN signLog : signLog[i].filePath = signLog[j].filePath => i = j

C10_Witness ==
  /\ pc = "done"
  /\ Len(signLog) >= 4
  /\ Len(yielded) = Len(signLog)

\* The components of a path name a bundle's executable: <Name>.app, Contents,
\* MacOS, <Name> or <Name>.framework, Versions, (any), <Name> are its last four.
NamesBundleExecutable(c) ==
  LET n == Len(c)
  IN /\ n >= 4
     /\ \/ /\ Chars(c[n - 3]) = Chars(c[n]) \o Chars(".app")
           /\ c[n - 2] = "Contents"
           /\ c[n - 1] = "MacOS"
        \/ /\ Chars(c[n - 3]) = Chars(c[n]) \o Chars(".framework")
           /\ c[n - 2] = "Versions"

\* C11: isBundleExecutable returns true exactly for the paths whose last four
\* components are <Name>.app/Contents/MacOS/<Name> or
\* <Name>.framework/Versions/(any)/<Name>, and false for every other path.
C11_BundleExecutableExactly ==
  (call.op = "isBundleExecutable" /\ call.result # <<>>) =>
    call.result = <<NamesBundleExecutable(call.input)>>

\* AC_TEAMID is set and not empty.
TeamIdGiven == env.AC_TEAMID.defined /\ env.AC_TEAMID.value # <<>>

\* What a string becomes: the team identifier when it is the placeholder and
\* the team identifier is given, itself otherwise.
SubstitutedString(value) ==
  IF value.v = placeholder /\ TeamIdGiven
  THEN [t |-> "string", v |-> env.AC_TEAMID.value]
  ELSE value

\* The same rule at every depth: strings substituted, arrays and objects of the
\* same shape with their members treated alike, anything else unchanged.
RECURSIVE Substituted(_)
Substituted(value) ==
  CASE value.t = "string" -> SubstitutedString(value)
    [] value.t = "array" -> Arr([i \in 1..Len(value.v) |-> Substituted(value.v[i])])
    [] value.t = "object" -> Obj([key \in DOMAIN value.v |-> Substituted(value.v[key])])
    [] OTHER -> value

\* C12: what evaluateConstraints returns is its argument with every string that
\* is the placeholder substituted, at every depth, in objects and in arrays
\* alike, with the same keys, lengths and kinds of value, and with numbers,
\* booleans and null unchanged.
C12_SameRuleAtEveryDepth ==
  (call.op = "evaluateConstraints" /\ call.result # <<>>) =>
    call.result[1] = Substituted(call.input)

\* The value holds the placeholder somewhere.
RECURSIVE HasPlaceholder(_)
HasPlaceholder(value) ==
  CASE value.t = "string" -> value.v = placeholder
    [] value.t = "array" -> \E i \in 1..Len(value.v) : HasPlaceholder(value.v[i])
    [] value.t = "object" -> \E key \in DOMAIN value.v : HasPlaceholder(value.v[key])
    [] OTHER -> FALSE

\* Wherever `before` holds the placeholder, `after` holds what it becomes.
RECURSIVE PlaceholdersSubstituted(_, _)
PlaceholdersSubstituted(before, after) ==
  IF ~HasPlaceholder(before) THEN TRUE
  ELSE CASE before.t = "string" -> after = SubstitutedString(before)
         [] before.t = "array" ->
              /\ after.t = "array"
              /\ Len(after.v) = Len(before.v)
              /\ \A i \in 1..Len(before.v) : PlaceholdersSubstituted(before.v[i], after.v[i])
         [] before.t = "object" ->
              /\ after.t = "object"
              /\ DOMAIN after.v = DOMAIN before.v
              /\ \A key \in DOMAIN before.v :
                   PlaceholdersSubstituted(before.v[key], after.v[key])

\* Evaluating a second time changes nothing when the declaration holds no
\* placeholder.
EvaluateIdempotent ==
  (call.op = "evaluateConstraints" /\ Len(call.result) = 2 /\ ~HasPlaceholder(call.input)) =>
    call.result[2] = call.result[1]

\* C13: evaluating a declaration without placeholder a second time gives what
\* the first time gave; and every string that is the placeholder is replaced
\* by AC_TEAMID when that is set and not empty, and left as it is otherwise.
C13_IdempotentAndSubstitutes ==
  /\ EvaluateIdempotent
  /\ (call.op = "evaluateConstraints" /\ call.result # <<>>) =>
       PlaceholdersSubstituted(call.input, call.result[1])

verifiedPaths == {verified[i].path : i \in DOMAIN verified}

\* The Presence Check of the file has been reached.
PassedDetector(file) ==
  \/ file \in verifiedPaths
  \/ /\ stack # <<>>
     /\ Top.target = file
     /\ Top.at \in {"verify", "verifying"}

\* The bytes FE ED FA CF or CF FA ED FE.
MachO64(bytes) == bytes \in {<<254, 237, 250, 207>>, <<207, 250, 237, 254>>}

\* The generator has run to its end.
WalkCompleted == pc = "verifyApp" \/ deepVerifies # <<>>

\* The regular files the walker inspects: those not skipped as bundle executables.
Candidates == {n \in tree : isFile(n) /\ n \notin skipped}

\* C14: a file reaches the Presence Check exactly when its inspection went
\* through (open, read and close fulfilled) and it starts with one of the two
\* headers; any other file, one shorter than 4 bytes or one whose inspection
\* failed, is not checked, yielded or signed; sign() throws during the walk only
\* for a path that was yielded; and a walk that ran to its end has inspected
\* every candidate.
C14_BinaryDetector ==
  /\ \A file \in Nodes :
       isFile(file) =>
         (PassedDetector(file) <=>
            /\ Inspection(file, "completed") \in inspected
            /\ Inspection(file, "failed") \notin inspected
            /\ MachO64(bytesOf[file]))
  /\ \A file \in Nodes :
       (isFile(file) /\ ~PassedDetector(file)) =>
         /\ file \notin Range(yielded)
         /\ file \notin signedPaths
  /\ \A file \in Nodes :
       (isFile(file) /\ Len(bytesOf[file]) < 4) => ~PassedDetector(file)
  /\ (pc = "failed" /\ listed[appDirNode] > 0 /\ deepVerifies = <<>>) =>
       /\ yielded # <<>>
       /\ error \in {"codesign --sign", "writeFile"}
  /\ WalkCompleted =>
       \A file \in Candidates : \E outcome \in {"completed", "failed"} :
         Inspection(file, outcome) \in inspected

C14_Witness ==
  /\ WalkCompleted
  /\ \E file \in Candidates :
       /\ Inspection(file, "completed") \in inspected
       /\ Len(bytesOf[file]) = 3
  /\ \E file \in Candidates : Inspection(file, "failed") \in inspected
  /\ \E file \in Candidates : file \in Range(yielded)

\* The codesign --sign of the path has exited with status 0.
SignedOk(path) ==
  \E k \in DOMAIN signLog : signLog[k].filePath = path /\ signLog[k].status = 0

\* C15: at most one codesign process runs at a time; from the yield of a path
\* to the exit of its codesign --sign the generator stays at that yield, with
\* no file open; the walker moves only with every yielded path signed with
\* status 0; and a directory is presence-checked only with every path yielded
\* inside it signed with status 0.
C15_SequentialSigning ==
  /\ Cardinality(children) <= 1
  /\ pc \in {"entitlements", "constraints", "codesign", "signing"} =>
       /\ stack # <<>>
       /\ Top.at = "yielded"
       /\ Top.target = filePath
       /\ yielded # <<>>
       /\ yielded[Len(yielded)] = filePath
       /\ handles = {}
       /\ children = IF pc = "signing" THEN {Codesign("sign", filePath)} ELSE {}
  /\ (\E child \in children : child.mode = "sign" /\ child.path \in Nodes) =>
       pc = "signing"
  /\ pc = "walk" =>
       /\ Len(signLog) = Len(yielded)
       /\ \A i \in DOMAIN yielded : signLog[i].filePath = yielded[i] /\ signLog[i].status = 0
  /\ \A d \in Nodes :
       (isDirectory(d) /\ (d \in verifiedPaths \/ Codesign("verify", d) \in children)) =>
         \A j \in DOMAIN yielded : Inside(yielded[j], d) => SignedOk(yielded[j])

C15_Witness ==
  \E d \in Nodes :
    /\ isDirectory(d)
    /\ d # appDirNode
    /\ Codesign("verify", d) \in children
    /\ \E j \in DOMAIN yielded : Inside(yielded[j], d)
    /\ Len(signLog) >= 2

\* C16: a file is open only between its open and its close, one at a time;
\* wherever the walker yields, runs a Presence Check, enters a directory or
\* stops, and while sign() works on a yielded path or has failed, no file is
\* open, whether the header matched, did not match, or could not be read.
C16_HandlesClosed ==
  /\ Cardinality(handles) <= 1
  /\ handles # {} =>
       /\ pc = "walk"
       /\ stack # <<>>
       /\ Top.at \in {"read", "close"}
       /\ handles = {Top.target}
  /\ (stack = <<>> \/ pc # "walk") => handles = {}
  /\ (stack # <<>> /\ Top.at \in {"start", "entry", "verify", "verifying", "yielded"}) =>
       handles = {}

C16_Witness ==
  /\ WalkCompleted
  /\ handles = {}
  /\ \E file \in Candidates :
       Inspection(file, "completed") \in inspected /\ file \in Range(yielded)
  /\ \E file \in Candidates :
       Inspection(file, "completed") \in inspected /\ ~MachO64(bytesOf[file])
  /\ \E file \in Candidates :
       Inspection(file, "failed") \in inspected /\ file \in visited

\* The entitlements that apply to a path: those of the first override whose
\* paths include it, the default ones when there is none.
EntitlementsFor(path) ==
  LET overrides == signingConfig.entitlements.overrides
      hits == Hits(overrides, path)
  IN IF hits = {} THEN signingConfig.entitlements.default
     ELSE overrides[CHOOSE first \in hits : \A k \in hits : first <= k].entitlements

\* The property list of a set of entitlements: each name mapped to true.
EntitlementsPlist(entitlements) == [plist |-> [k \in Range(entitlements) |-> TRUE]]

\* C19: when codesign --sign is started for a path, the file given with
\* --entitlements exists and holds exactly the entitlements that apply to that
\* path; and the default file, once written, holds the default entitlements
\* whatever is written afterwards.
C19_EntitlementFileAtSignTime ==
  /\ \A i \in DOMAIN signLog :
       LET file == signLog[i].args.entitlements
       IN /\ file \in DOMAIN signLog[i].files
          /\ signLog[i].files[file] =
               EntitlementsPlist(EntitlementsFor(relPath[signLog[i].filePath]))
  /\ defaultFile \in DOMAIN plists =>
       plists[defaultFile] = EntitlementsPlist(signingConfig.entitlements.default)

C19_Witness ==
  /\ \E i, j \in DOMAIN signLog :
       /\ i < j
       /\ signLog[i].args.entitlements # defaultFile
       /\ signLog[j].args.entitlements = defaultFile
       /\ EntitlementsFor(relPath[signLog[i].filePath])
            # EntitlementsFor(relPath[signLog[j].filePath])
  /\ \E i, j \in DOMAIN signLog :
       /\ i < j
       /\ signLog[i].args.entitlements = defaultFile
       /\ signLog[j].args.entitlements # defaultFile
  /\ Len(writes) >= 3

\* The directory three levels above a file: the bundle whose executable a
\* skipped file is taken to be (0 when there is none in the tree).
BundleAbove(file) ==
  LET up(n) == IF n = 0 THEN 0 ELSE nodeParent[n]
  IN up(up(up(file)))

NamedAsBundle(d) ==
  \/ EndsWith(Chars(nodeName[d]), Chars(".app"))
  \/ EndsWith(Chars(nodeName[d]), Chars(".framework"))

\* C20: a file skipped as a bundle executable lies in a directory of the walked
\* tree named *.app or *.framework (the one three levels above it), whose
\* Presence Check comes after the skip: while the walker is inside that
\* directory the check has not run, and when the walk has run to its end the
\* check has run, and the directory was yielded and signed unless the check
\* exited with status 0.
C20_SkippedExecutablesCovered ==
  \A file \in skipped :
    LET d == BundleAbove(file)
    IN /\ d \in tree
       /\ isDirectory(d)
       /\ NamedAsBundle(d)
       /\ \/ d \in verifiedPaths
          \/ \E k \in DOMAIN stack : stack[k].dir = d
          \/ pc = "failed" /\ stack = <<>>
       /\ (\E k \in DOMAIN stack : stack[k].dir \in Subtree(d) \ {d}) =>
            /\ d \notin verifiedPaths
            /\ Codesign("verify", d) \notin children
       /\ \A i \in DOMAIN verified :
            (verified[i].path = d /\ verified[i].status # 0) => d \in Range(yielded)
       /\ WalkCompleted =>
            /\ d \in verifiedPaths
            /\ d \in Range(yielded) => SignedOk(d)

C20_Witness ==
  /\ WalkCompleted
  /\ {4, 5, 11} \subseteq skipped
  /\ \E i, j \in DOMAIN verified :
       /\ verified[i].path = BundleAbove(11) /\ verified[i].status # 0
       /\ verified[j].path = BundleAbove(4) /\ verified[j].status = 0

\* The outcome of the deletions carried out one after the other, in the order
\* of the list: whether one was rejected, and the tree that is left.
RECURSIVE OneByOne(_, _)
OneByOne(paths, outcome) ==
  IF paths = <<>> THEN outcome
  ELSE LET target == NodeAt(Head(paths))
       IN OneByOne(Tail(paths),
                   IF target \cap outcome.tree = {}
                   THEN [outcome EXCEPT !.rejected = TRUE]
                   ELSE [outcome EXCEPT
                           !.tree = @ \ UNION {Subtree(n) : n \in target}])

\* C18: with every deletion settled, the phase has failed or not, and the tree
\* is, as when the deletions are carried out one after the other: the outcome
\* is that of every interleaving.
C18_RemovalOrderIndependent ==
  (\A i \in DOMAIN rm : rm[i] \in {"done", "rejected"}) =>
    LET outcome == OneByOne(signingConfig.remove, [rejected |-> FALSE, tree |-> bundle])
    IN /\ (\E i \in DOMAIN rm : rm[i] = "rejected") = outcome.rejected
       /\ tree = outcome.tree

\* No directory is read twice, and a symbolic link is never read as a
\* directory, inspected, presence-checked or yielded.
WalkedOnce ==
  \A n \in Nodes :
    /\ listed[n] <= 1
    /\ isSymbolicLink(n) =>
         /\ listed[n] = 0
         /\ \A k \in DOMAIN stack : stack[k].dir # n /\ stack[k].target # n
         /\ n \notin verifiedPaths
         /\ n \notin Range(yielded)
         /\ \A outcome \in {"completed", "failed"} : Inspection(n, outcome) \notin inspected

\* sign() has thrown, or the bundle has passed the deep verification.
FailedOrVerified == pc = "failed" \/ deepVerifies = <<0>>

\* C17: on every tree, with every step that can be taken being taken, the run
\* comes to the failed state or to the verified bundle, and on the way reads no
\* directory twice and follows no symbolic link.
C17_SigningPhaseTerminates == []WalkedOnce /\ <>FailedOrVerified

C17_Witness ==
  /\ deepVerifies = <<0>>
  /\ tree = Nodes \ {15}
  /\ \A n \in tree : isDirectory(n) => listed[n] = 1
  /\ \E n \in visited : isSymbolicLink(n)
  /\ Len(yielded) >= 3

====
